---- MODULE Spec2Model ----
(***************************************************************************)
(* Authentication subsystem of the language-learning API:                  *)
(*   - the identity store (tables users, social_accounts, languages),      *)
(*   - UserService.create_or_get_user_from_social (reconciliation), one    *)
(*     step per database statement so that concurrent requests interleave, *)
(*   - JWTManager (mint / verify of session tokens),                       *)
(*   - get_current_user (the authentication gate) and the endpoints that   *)
(*     use it.                                                             *)
(* Strings that the code only compares are TLA+ strings; strings that the  *)
(* code takes apart (emails, usernames, names) are sequences of one-       *)
(* character strings.  Time is counted in ticks; TicksPerSecond ticks make *)
(* one second, so that the clock is finer than the whole-second NumericDate*)
(* of a token.                                                             *)
(***************************************************************************)
EXTENDS Integers, Sequences, FiniteSets, TLC

VARIABLES users, social_accounts, languages, now, call, prev, issued, resp, limiter

vars == <<users, social_accounts, languages, now, call, prev, issued, resp, limiter>>

(***************************************************************************)
(* Bounds of the model.                                                    *)
(***************************************************************************)
NumCalls == 2          \* social-login requests in flight at the same time
MaxNow == 6            \* the clock stops at this tick
TicksPerSecond == 2    \* clock resolution, ticks per second
AccessTTL == 1         \* configured access-token lifetime, whole seconds
RefreshTTL == 2        \* configured refresh-token lifetime, whole seconds
MaxIssued == 3         \* session tokens kept in flight
NumDispatch == 2       \* requests inside the rate limiter at the same time
RequestsPerMinute == 2 \* configured rate limit
WindowTicks == 2       \* the limiter's window (60 seconds), in ticks

Calls == 1..NumCalls
UserIds == {"u1", "u2", "u3"}   \* uuid values; u3 is held by no seeded account

\* None / NULL and "key not present", one of each for every kind of value
NULL == <<"NULL">>          \* in place of a character string
ABSENT == <<"ABSENT">>      \* a dict key that is not there (.get gives its default)
NoStr == "NULL"             \* in place of an identifier, a provider name or a code
NoTime == <<>>              \* in place of a datetime, which is <<tick>>

(***************************************************************************)
(* Character strings.                                                      *)
(***************************************************************************)
Str_joe == <<"j", "o", "e">>
Str_ann == <<"a", "n", "n">>
Str_joe_x == <<"j", "o", "e", "@", "x">>
Str_ann_x == <<"a", "n", "n", "@", "x">>
Str_new_x == <<"n", "e", "w", "@", "x">>
Str_empty == <<>>
Str_None == <<"N", "o", "n", "e">>
Str_user_ == <<"u", "s", "e", "r", "_">>
Str_local == <<".", "l", "o", "c", "a", "l">>

ProviderChars ==
  [google |-> <<"g", "o", "o", "g", "l", "e">>,
   facebook |-> <<"f", "a", "c", "e", "b", "o", "o", "k">>,
   twitter |-> <<"t", "w", "i", "t", "t", "e", "r">>]

Digit == <<"0", "1", "2", "3", "4", "5", "6", "7", "8", "9">>

\* str(n) for a small natural
IntStr(n) == IF n < 10 THEN <<Digit[n + 1]>> ELSE <<Digit[(n \div 10) + 1], Digit[(n % 10) + 1]>>

\* str.lower() on the letters the model uses
LowerChar(ch) ==
  CASE ch = "J" -> "j"
    [] ch = "A" -> "a"
    [] ch = "N" -> "n"
    [] OTHER -> ch

\* the characters the pattern [^a-z0-9_] keeps
KeptChars ==
  {"a", "b", "c", "d", "e", "f", "g", "h", "i", "j", "k", "l", "m", "n", "o", "p", "q", "r",
   "s", "t", "u", "v", "w", "x", "y", "z", "0", "1", "2", "3", "4", "5", "6", "7", "8", "9", "_"}

Truthy(v) == v /= NULL /\ v /= ABSENT /\ v /= Str_empty

\* s.split('@')[0]
SplitAtFirst(s) ==
  IF \E i \in 1..Len(s) : s[i] = "@"
  THEN LET k == CHOOSE i \in 1..Len(s) : s[i] = "@" /\ \A j \in 1..(i - 1) : s[j] /= "@"
       IN SubSeq(s, 1, k - 1)
  ELSE s

\* f"{v}" for an optional string read with .get(key, '')
FormatGet(v) == IF v = ABSENT THEN Str_empty ELSE IF v = NULL THEN Str_None ELSE v

IsKept(ch) == ch \in KeptChars

\* .lower().replace(' ', '_'), then re.sub(r'[^a-z0-9_]', '', ...), then the
\* minimum-length prefix
NormaliseBase(raw) ==
  LET lowered == [i \in 1..Len(raw) |-> LowerChar(raw[i])]
      replaced == [i \in 1..Len(lowered) |-> IF lowered[i] = " " THEN "_" ELSE lowered[i]]
      stripped == SelectSeq(replaced, IsKept)
  IN IF Len(stripped) < 3 THEN Str_user_ \o stripped ELSE stripped

AttributeError == <<"AttributeError">>

\* The expression of _generate_unique_username that picks the raw base.
\* provider_data.get('email', '') is None when the key holds None, and
\* None.split raises AttributeError: the result is then "AttributeError".
RawBase(pd) ==
  IF Truthy(pd.username) THEN pd.username
  ELSE IF pd.email = NULL THEN AttributeError
  ELSE LET local == SplitAtFirst(IF pd.email = ABSENT THEN Str_empty ELSE pd.email)
       IN IF local /= Str_empty THEN local
          ELSE FormatGet(pd.given_name) \o <<"_">> \o FormatGet(pd.family_name)

\* f"{base_username}_{counter}"
Candidate(base, counter) == IF counter = 0 THEN base ELSE base \o <<"_">> \o IntStr(counter)

(***************************************************************************)
(* The identity store.                                                     *)
(***************************************************************************)
\* The accounts a database can hold when the server starts.
SeedUser1 ==
  [id |-> "u1", username |-> Str_joe, email |-> Str_joe_x, is_active |-> TRUE,
   last_login |-> NoTime, provider |-> "facebook", provider_user_id |-> "x1"]
SeedUser2 ==
  [id |-> "u2", username |-> Str_ann, email |-> Str_ann_x, is_active |-> TRUE,
   last_login |-> NoTime, provider |-> "google", provider_user_id |-> "g2"]
SeedLink1 ==
  [user_id |-> "u1", provider |-> "facebook", provider_user_id |-> "x1",
   provider_email |-> Str_joe_x]

\* users: NOT NULL columns and the unique constraints of the table
\* (username, email, and provider + provider_user_id)
UserRowViolation(row, table) ==
  \/ row.username = NULL
  \/ row.email = NULL
  \/ row.provider = NoStr
  \/ row.provider_user_id = NoStr
  \/ \E u \in table : u.id /= row.id /\ u.username = row.username
  \/ \E u \in table : u.id /= row.id /\ u.email = row.email
  \/ \E u \in table : u.id /= row.id /\ u.provider = row.provider
                       /\ u.provider_user_id = row.provider_user_id

\* the table without its unique constraint
LinkRowViolation_NoUnique(row, table) ==
  \/ row.provider = NoStr
  \/ row.provider_user_id = NoStr
  \/ row.user_id = NoStr

\* social_accounts: UNIQUE(provider, provider_user_id)
LinkRowViolation(row, table) ==
  \/ row.provider = NoStr
  \/ row.provider_user_id = NoStr
  \/ row.user_id = NoStr
  \/ \E l \in table : l.provider = row.provider /\ l.provider_user_id = row.provider_user_id

\* session.get(User, id): the rows with that primary key (none or one)
GetUser(id) == {u \in users : u.id = id}

(***************************************************************************)
(* Inputs of a social-login request.                                       *)
(***************************************************************************)
Providers == {"google", "facebook", "twitter"}
ExternalIds == {"x1", "n1"}
Emails == {Str_joe_x, Str_ann_x, Str_new_x}

\* What validate_social_token returns for each provider: the keys a
\* validator always sets hold a value or None, the keys it never sets are
\* ABSENT.
ProviderData(provider) ==
  CASE provider = "google" ->
         [id : ExternalIds, email : Emails, username : {ABSENT},
          given_name : {Str_ann}, family_name : {Str_empty}, email_verified : BOOLEAN]
    [] provider = "facebook" ->
         [id : ExternalIds, email : Emails \cup {NULL}, username : {ABSENT},
          given_name : {Str_ann}, family_name : {Str_empty}, email_verified : {TRUE}]
    [] provider = "twitter" ->
         {[pd EXCEPT !.email_verified = Truthy(pd.email)] :
            pd \in [id : ExternalIds, email : {NULL, Str_ann_x}, username : {Str_joe},
                    given_name : {ABSENT}, family_name : {ABSENT}, email_verified : {FALSE}]}

\* language_preferences: None, or the two codes of LanguagePreference
NoPrefs == [native_language_code |-> NoStr, study_language_code |-> NoStr]
Preferences == {NoPrefs, [native_language_code |-> "fr", study_language_code |-> "es"]}

NoData ==
  [id |-> NoStr, email |-> ABSENT, username |-> ABSENT, given_name |-> ABSENT,
   family_name |-> ABSENT, email_verified |-> FALSE]
NoWork == [new_user |-> {}, new_link |-> {}, touch |-> {}]
NoResult ==
  [status |-> "none", user |-> NoStr, is_new |-> FALSE, error |-> NoStr, raised_at |-> NoStr]
NoSub == [form |-> "absent", id |-> NoStr]
NoToken ==
  [well_formed |-> FALSE, key |-> NoStr, type |-> NoStr, sub |-> NoSub, iat |-> NoTime,
   exp |-> NoTime, iss |-> NoStr, aud |-> NoStr, is_active |-> FALSE]
NoResp ==
  [op |-> "none", token |-> NoToken, status |-> 0, detail |-> NoStr, user |-> NoStr,
   minted |-> {}, expires_in |-> 0]
NoPrev == [provider |-> NoStr, id |-> NoStr, result |-> NoResult]

\* What a provider's HTTP endpoint answers: the call raises an
\* httpx.RequestError (a timeout or another transport error), or a response
\* comes back with a status and a JSON body.  In a body, id = NoStr and
\* email = ABSENT stand for a key that is not there; has_key and verifies
\* are Apple's part: the key set holds the token's kid, the token verifies.
NoBody == [id |-> NoStr, email |-> ABSENT, aud |-> NoStr]
NoAnswer == [kind |-> "none", status |-> 0, body |-> NoBody]
NoExchange == [first |-> NoAnswer, second |-> NoAnswer, has_key |-> FALSE, verifies |-> FALSE]
NoReq == [provider |-> NoStr, token |-> NoStr, x |-> NoExchange]

\* A request slot that runs nothing.  seen_link, seen_user and seen_ids record
\* what the store held when the request started: a link of the identity, the
\* account with its email, and the ids of all accounts.
IdleCall ==
  [pc |-> "idle", provider |-> NoStr, pd |-> NoData, prefs |-> NoPrefs,
   existing |-> NoStr, base |-> NULL, counter |-> 0, username |-> NULL,
   native_language_id |-> NoStr, study_language_id |-> NoStr,
   work |-> NoWork, result |-> NoResult, seen_link |-> FALSE, seen_user |-> NoStr,
   seen_ids |-> {}, req |-> NoReq]

Failed(c, error) ==
  [IdleCall EXCEPT !.pc = "failed", !.provider = call[c].provider, !.pd = call[c].pd,
                   !.prefs = call[c].prefs, !.req = call[c].req,
                   !.seen_link = call[c].seen_link, !.seen_user = call[c].seen_user,
                   !.seen_ids = call[c].seen_ids,
                   !.result = [NoResult EXCEPT !.status = "error", !.error = error,
                                               !.raised_at = call[c].pc]]

LinksOf(provider, id) ==
  {l \in social_accounts : l.provider = provider /\ l.provider_user_id = id}

\* the lookup on the wrong column
UsersByEmail_WrongColumn(email) == {u \in users : u.username = email}

UsersByEmail(email) == {u \in users : u.email = email}

UsersByUsername(username) == {u \in users : u.username = username}

(***************************************************************************)
(* UserService.create_or_get_user_from_social, statement by statement.     *)
(***************************************************************************)
\* validate_social_token has returned provider_data
\* the slot of a call that has its provider_data and is about to query
Started(provider, pd, prefs) ==
  [IdleCall EXCEPT !.pc = "select_social", !.provider = provider, !.pd = pd,
                   !.prefs = prefs,
                   !.seen_link =
                     (\E l \in social_accounts :
                        l.provider = provider /\ l.provider_user_id = pd.id),
                   !.seen_user =
                     IF \E u \in users : u.email = pd.email
                     THEN (CHOOSE u \in users : u.email = pd.email).id
                     ELSE NoStr,
                   !.seen_ids = {u.id : u \in users}]

Start(c, provider, pd, prefs) ==
  /\ call[c].pc \in {"idle", "done", "failed"}
  /\ call' = [call EXCEPT ![c] = Started(provider, pd, prefs)]
  /\ resp' = NoResp
  /\ UNCHANGED <<users, social_accounts, languages, now, issued, limiter>>

Begin(c, provider, pd, prefs) ==
  /\ call[c].pc = "idle"
  /\ Start(c, provider, pd, prefs)
  /\ UNCHANGED prev

\* the same request, made by a client that makes one request after another
\* and keeps the outcome of the one before
BeginNext(provider, pd, prefs) ==
  /\ Start(1, provider, pd, prefs)
  /\ prev' = [provider |-> call[1].provider, id |-> call[1].pd.id, result |-> call[1].result]

\* select(SocialAccount).where(provider, provider_user_id).first()
SelectSocial(c) ==
  /\ call[c].pc = "select_social"
  /\ LET found == LinksOf(call[c].provider, call[c].pd.id)
     IN IF found /= {}
        THEN \E l \in found :
               call' = [call EXCEPT ![c].pc = "load_user", ![c].existing = l.user_id]
        ELSE call' = [call EXCEPT ![c].pc = IF Truthy(call[c].pd.email) THEN "select_email"
                                            ELSE "gen_base"]
  /\ resp' = NoResp
  /\ UNCHANGED <<users, social_accounts, languages, now, prev, issued, limiter>>

\* existing_social.user (loaded from users by user_id), last_login = utcnow()
LoadLinkedUser(c) ==
  /\ call[c].pc = "load_user"
  /\ call' = [call EXCEPT ![c] =
                IF GetUser(call[c].existing) = {}
                THEN Failed(c, "AttributeError")
                ELSE [call[c] EXCEPT !.pc = "commit",
                                     !.work = [NoWork EXCEPT !.touch = {<<call[c].existing, now>>}],
                                     !.result = [NoResult EXCEPT !.user = call[c].existing]]]
  /\ resp' = NoResp
  /\ UNCHANGED <<users, social_accounts, languages, now, prev, issued, limiter>>

\* a lookup that links verified emails only
SelectUserByEmail_VerifiedOnly(c) ==
  /\ call[c].pc = "select_email"
  /\ LET found == IF call[c].pd.email_verified THEN UsersByEmail(call[c].pd.email) ELSE {}
     IN IF found /= {}
        THEN \E u \in found :
               call' = [call EXCEPT ![c].pc = "commit",
                          ![c].work = [new_user |-> {},
                                       new_link |-> {[user_id |-> u.id,
                                                      provider |-> call[c].provider,
                                                      provider_user_id |-> call[c].pd.id,
                                                      provider_email |-> call[c].pd.email]},
                                       touch |-> {<<u.id, now>>}],
                          ![c].result = [NoResult EXCEPT !.user = u.id]]
        ELSE call' = [call EXCEPT ![c].pc = "gen_base"]
  /\ resp' = NoResp
  /\ UNCHANGED <<users, social_accounts, languages, now, prev, issued, limiter>>

\* select(User).where(User.email == provider_data['email']).first(); when a
\* row is found the SocialAccount is built and added with the new last_login
SelectUserByEmail(c) ==
  /\ call[c].pc = "select_email"
  /\ LET found == UsersByEmail(call[c].pd.email)
     IN IF found /= {}
        THEN \E u \in found :
               call' = [call EXCEPT ![c].pc = "commit",
                          ![c].work = [new_user |-> {},
                                       new_link |-> {[user_id |-> u.id,
                                                      provider |-> call[c].provider,
                                                      provider_user_id |-> call[c].pd.id,
                                                      provider_email |-> call[c].pd.email]},
                                       touch |-> {<<u.id, now>>}],
                          ![c].result = [NoResult EXCEPT !.user = u.id]]
        ELSE call' = [call EXCEPT ![c].pc = "gen_base"]
  /\ resp' = NoResp
  /\ UNCHANGED <<users, social_accounts, languages, now, prev, issued, limiter>>

\* _generate_unique_username up to the loop: the base candidate
GenerateBase(c) ==
  /\ call[c].pc = "gen_base"
  /\ call' = [call EXCEPT ![c] =
                IF RawBase(call[c].pd) = AttributeError
                THEN Failed(c, "AttributeError")
                ELSE [call[c] EXCEPT !.pc = "probe",
                                     !.base = NormaliseBase(RawBase(call[c].pd)),
                                     !.counter = 0,
                                     !.username = NormaliseBase(RawBase(call[c].pd))]]
  /\ resp' = NoResp
  /\ UNCHANGED <<users, social_accounts, languages, now, prev, issued, limiter>>

\* a loop that tries one suffix and takes it unchecked
ProbeUsername_OneRetry(c) ==
  /\ call[c].pc = "probe"
  /\ call' = [call EXCEPT ![c] =
                IF UsersByUsername(call[c].username) /= {} /\ call[c].counter = 0
                THEN [call[c] EXCEPT !.counter = 1,
                                     !.username = Candidate(call[c].base, 1)]
                ELSE [call[c] EXCEPT !.pc = "prepare_lang"]]
  /\ resp' = NoResp
  /\ UNCHANGED <<users, social_accounts, languages, now, prev, issued, limiter>>

\* one evaluation of the loop condition of _generate_unique_username
ProbeUsername(c) ==
  /\ call[c].pc = "probe"
  /\ call' = [call EXCEPT ![c] =
                IF UsersByUsername(call[c].username) /= {}
                THEN [call[c] EXCEPT !.counter = call[c].counter + 1,
                                     !.username = Candidate(call[c].base, call[c].counter + 1)]
                ELSE [call[c] EXCEPT !.pc = "prepare_lang"]]
  /\ resp' = NoResp
  /\ UNCHANGED <<users, social_accounts, languages, now, prev, issued, limiter>>

\* preferences.get(key, default)
PrefCode(code, default) == IF code = NoStr THEN default ELSE code

\* a resolution without the second query
ResolveLanguage_NoFallback(code, default) ==
  IF PrefCode(code, default) \in languages THEN PrefCode(code, default) ELSE NoStr

\* select(Language).where(Language.code == code).first(), then the default
ResolveLanguage(code, default) ==
  IF PrefCode(code, default) \in languages THEN PrefCode(code, default)
  ELSE IF default \in languages THEN default
  ELSE NoStr

\* _prepare_language_preferences
PrepareLanguages(c) ==
  /\ call[c].pc = "prepare_lang"
  /\ LET native == ResolveLanguage(call[c].prefs.native_language_code, "en")
         study == ResolveLanguage(call[c].prefs.study_language_code, "es")
     IN call' = [call EXCEPT ![c] =
                   IF native = NoStr \/ study = NoStr
                   THEN Failed(c, "ValueError")
                   ELSE [call[c] EXCEPT !.pc = "flush_user",
                                        !.native_language_id = native,
                                        !.study_language_id = study]]
  /\ resp' = NoResp
  /\ UNCHANGED <<users, social_accounts, languages, now, prev, issued, limiter>>

\* provider_data.get('email', f"{username}@{provider}.local")
NewUserEmail(pd, username, provider) ==
  IF pd.email = ABSENT THEN username \o <<"@">> \o ProviderChars[provider] \o Str_local
  ELSE pd.email

\* User(**user_data): the keys of user_data, and the class defaults for the
\* rest; provider and provider_user_id have no default and are not given
NewUserRow(id, pd, username, provider, t) ==
  [id |-> id, username |-> username, email |-> NewUserEmail(pd, username, provider),
   is_active |-> TRUE, last_login |-> <<t>>, provider |-> NoStr, provider_user_id |-> NoStr]

\* a uuid4 that no row, token or request holds
FreshIds ==
  UserIds \ ({u.id : u \in users} \cup {l.user_id : l \in social_accounts}
             \cup {i.uid : i \in issued}
             \cup UNION {{r.id : r \in call[d].work.new_user} : d \in Calls})

\* a creation that writes the link in a transaction of its own before the
\* account is flushed
FlushUser_LinkFirst(c) ==
  /\ call[c].pc = "flush_user"
  /\ \E id \in FreshIds :
       LET row == NewUserRow(id, call[c].pd, call[c].username, call[c].provider, now)
           link == [user_id |-> id, provider |-> call[c].provider,
                    provider_user_id |-> call[c].pd.id,
                    provider_email |-> call[c].pd.email]
       IN /\ social_accounts' = social_accounts \cup {link}
          /\ call' = [call EXCEPT ![c] =
                        IF UserRowViolation(row, users)
                        THEN Failed(c, "IntegrityError")
                        ELSE [call[c] EXCEPT !.pc = "commit",
                                 !.work = [new_user |-> {row}, new_link |-> {}, touch |-> {}],
                                 !.result = [NoResult EXCEPT !.user = id, !.is_new = TRUE]]]
  /\ resp' = NoResp
  /\ UNCHANGED <<users, languages, now, prev, issued, limiter>>

\* session.add(user); session.flush(), then the SocialAccount is built and
\* added
FlushUser(c) ==
  /\ call[c].pc = "flush_user"
  /\ \E id \in FreshIds :
       LET row == NewUserRow(id, call[c].pd, call[c].username, call[c].provider, now)
       IN call' = [call EXCEPT ![c] =
                     IF UserRowViolation(row, users)
                     THEN Failed(c, "IntegrityError")
                     ELSE [call[c] EXCEPT !.pc = "commit",
                              !.work = [new_user |-> {row},
                                        new_link |-> {[user_id |-> id,
                                                       provider |-> call[c].provider,
                                                       provider_user_id |-> call[c].pd.id,
                                                       provider_email |-> call[c].pd.email]},
                                        touch |-> {}],
                              !.result = [NoResult EXCEPT !.user = id, !.is_new = TRUE]]]
  /\ resp' = NoResp
  /\ UNCHANGED <<users, social_accounts, languages, now, prev, issued, limiter>>

\* the rows of users after the UPDATEs of a unit of work
Touched(table, touch) ==
  {IF \E t \in touch : t[1] = u.id
   THEN [u EXCEPT !.last_login = <<(CHOOSE t \in touch : t[1] = u.id)[2]>>]
   ELSE u : u \in table}

\* a commit that checks the rows of users only
CommitRefused_UsersOnly(work) ==
  \/ \E t \in work.touch : GetUser(t[1]) = {}
  \/ \E r \in work.new_user : UserRowViolation(r, users)

\* session.commit() refuses the whole unit of work when an UPDATE matches no
\* row or an INSERT breaks a constraint
CommitRefused(work) ==
  \/ \E t \in work.touch : GetUser(t[1]) = {}
  \/ \E r \in work.new_user : UserRowViolation(r, users)
  \/ \E r \in work.new_link : LinkRowViolation(r, social_accounts)

\* what a refused commit raises
CommitError(work) ==
  IF \E t \in work.touch : GetUser(t[1]) = {} THEN "StaleDataError" ELSE "IntegrityError"

\* session.commit(): all of the unit of work or none of it; on success the
\* service returns (user, is_new_user)
Commit(c) ==
  /\ call[c].pc = "commit"
  /\ IF CommitRefused(call[c].work)
     THEN /\ call' = [call EXCEPT ![c] = Failed(c, CommitError(call[c].work))]
          /\ UNCHANGED <<users, social_accounts>>
     ELSE /\ users' = Touched(users, call[c].work.touch) \cup call[c].work.new_user
          /\ social_accounts' = social_accounts \cup call[c].work.new_link
          /\ call' = [call EXCEPT ![c] =
                        [IdleCall EXCEPT !.pc = "returned", !.provider = call[c].provider,
                                         !.pd = call[c].pd,
                                         !.req = call[c].req,
                                         !.seen_link = call[c].seen_link,
                                         !.seen_user = call[c].seen_user,
                                         !.seen_ids = call[c].seen_ids,
                                         !.result = [call[c].result EXCEPT !.status = "ok"]]]
  /\ resp' = NoResp
  /\ UNCHANGED <<languages, now, prev, issued, limiter>>

(***************************************************************************)
(* JWTManager.  A token is the record of what its three segments hold:     *)
(* well_formed (the segments decode), key (what it was signed with), and   *)
(* the claims.  A claim that is not in the payload is NoStr / NoTime.      *)
(***************************************************************************)
SecretKey == "jwt_secret_key"
Issuer == "language-learning-api"
Audience == "language-learning-app"

\* the whole second a tick lies in: PyJWT writes exp and iat as
\* timegm(utctimetuple()), which drops the fraction of the second
Sec(t) == t \div TicksPerSecond

\* timedelta(minutes=...) / timedelta(days=...) in ticks
Ticks(seconds) == seconds * TicksPerSecond

\* str(user.id)
UuidStr(id) == [form |-> "plain", id |-> id]

\* uuid.UUID(s): the plain and the braced spelling parse, anything else is
\* a ValueError (NoStr)
ParseUUID(s) == IF s.form \in {"plain", "braced"} THEN s.id ELSE NoStr

\* an access token that is minted with the issuer in place of the audience
create_access_token_WrongAud(user, t) ==
  [well_formed |-> TRUE, key |-> SecretKey, type |-> NoStr, sub |-> UuidStr(user.id),
   iat |-> <<Sec(t)>>, exp |-> <<Sec(t + Ticks(AccessTTL))>>, iss |-> Issuer,
   aud |-> Issuer, is_active |-> user.is_active]

create_access_token(user, t) ==
  [well_formed |-> TRUE, key |-> SecretKey, type |-> NoStr, sub |-> UuidStr(user.id),
   iat |-> <<Sec(t)>>, exp |-> <<Sec(t + Ticks(AccessTTL))>>, iss |-> Issuer,
   aud |-> Audience, is_active |-> user.is_active]

create_refresh_token(user, t) ==
  [well_formed |-> TRUE, key |-> SecretKey, type |-> "refresh", sub |-> UuidStr(user.id),
   iat |-> <<Sec(t)>>, exp |-> <<Sec(t + Ticks(RefreshTTL))>>, iss |-> Issuer,
   aud |-> Audience, is_active |-> FALSE]

\* exp < now: a token still passes at its expiry instant
Expired_Strict(tok, t) == tok.exp /= NoTime /\ Ticks(tok.exp[1]) < t

\* exp <= now, the whole-second exp against the clock
Expired(tok, t) == tok.exp /= NoTime /\ Ticks(tok.exp[1]) <= t

\* a decode that is not given the audience
jwt_decode_NoAudience(tok, t) ==
  IF ~tok.well_formed THEN "DecodeError"
  ELSE IF tok.key /= SecretKey THEN "InvalidSignatureError"
  ELSE IF tok.iat /= NoTime /\ Ticks(tok.iat[1]) > t THEN "ImmatureSignatureError"
  ELSE IF Expired(tok, t) THEN "ExpiredSignatureError"
  ELSE IF tok.iss /= Issuer THEN "InvalidIssuerError"
  ELSE "ok"

\* jwt.decode(token, secret_key, algorithms, audience, issuer): the segments,
\* the signature, then the claims in the order iat, exp, iss, aud
jwt_decode(tok, t) ==
  IF ~tok.well_formed THEN "DecodeError"
  ELSE IF tok.key /= SecretKey THEN "InvalidSignatureError"
  ELSE IF tok.iat /= NoTime /\ Ticks(tok.iat[1]) > t THEN "ImmatureSignatureError"
  ELSE IF Expired(tok, t) THEN "ExpiredSignatureError"
  ELSE IF tok.iss /= Issuer THEN "InvalidIssuerError"
  ELSE IF tok.aud /= Audience THEN "InvalidAudienceError"
  ELSE "ok"

\* verify_token: the payload, or the 401 of one of the two except clauses
verify_token(tok, t) ==
  IF jwt_decode(tok, t) = "ok" THEN [status |-> 200, detail |-> "ok"]
  ELSE IF jwt_decode(tok, t) = "ExpiredSignatureError"
       THEN [status |-> 401, detail |-> "Token has expired"]
       ELSE [status |-> 401, detail |-> "Invalid authentication token"]

(***************************************************************************)
(* The authentication gate.                                                *)
(***************************************************************************)
\* a response: the bearer value (or request token) it answers, the status and
\* detail, the account it is about, and the tokens its body carries
Reply(op, tok, status, detail, user) ==
  [op |-> op, token |-> tok, status |-> status, detail |-> detail, user |-> user,
   minted |-> {}, expires_in |-> 0]

\* expires_in of both token responses, in seconds: the literal of the two
\* handlers
ExpiresIn == 3600

\* TokenResponse / TokenRefreshResponse: a response with tokens in its body
WithTokens(reply, tokens) == [reply EXCEPT !.minted = tokens, !.expires_in = ExpiresIn]

\* the response as the model keeps it: a specification that does not look at
\* responses keeps none
Seen(obs, reply) == IF obs THEN reply ELSE NoResp

\* the account the gate decides on
GateAccount(tok) == GetUser(ParseUUID(tok.sub))

\* a gate that looks the account up before it parses the subject, and so
\* reports a subject that is no uuid as an unknown user
get_current_user_LookupFirst(tok, t) ==
  IF verify_token(tok, t).status /= 200
  THEN [status |-> 401, detail |-> verify_token(tok, t).detail, user |-> NoStr]
  ELSE IF tok.sub.form \in {"absent", "empty"}
  THEN [status |-> 401, detail |-> "Invalid token: missing user ID", user |-> NoStr]
  ELSE IF GateAccount(tok) = {}
  THEN [status |-> 401, detail |-> "User not found", user |-> NoStr]
  ELSE IF \E u \in GateAccount(tok) : ~u.is_active
  THEN [status |-> 401, detail |-> "User account is deactivated", user |-> NoStr]
  ELSE [status |-> 200, detail |-> "ok", user |-> ParseUUID(tok.sub)]

\* a gate that trusts the is_active claim of the token
get_current_user_Snapshot(tok, t) ==
  IF verify_token(tok, t).status /= 200
  THEN [status |-> 401, detail |-> verify_token(tok, t).detail, user |-> NoStr]
  ELSE IF tok.sub.form \in {"absent", "empty"}
  THEN [status |-> 401, detail |-> "Invalid token: missing user ID", user |-> NoStr]
  ELSE IF ParseUUID(tok.sub) = NoStr
  THEN [status |-> 401, detail |-> "Invalid token: malformed user ID", user |-> NoStr]
  ELSE IF GateAccount(tok) = {}
  THEN [status |-> 401, detail |-> "User not found", user |-> NoStr]
  ELSE IF ~tok.is_active
  THEN [status |-> 401, detail |-> "User account is deactivated", user |-> NoStr]
  ELSE [status |-> 200, detail |-> "ok", user |-> ParseUUID(tok.sub)]

\* get_current_user: the outcome for a bearer token at time t
get_current_user(tok, t) ==
  IF verify_token(tok, t).status /= 200
  THEN [status |-> 401, detail |-> verify_token(tok, t).detail, user |-> NoStr]
  ELSE IF tok.sub.form \in {"absent", "empty"}
  THEN [status |-> 401, detail |-> "Invalid token: missing user ID", user |-> NoStr]
  ELSE IF ParseUUID(tok.sub) = NoStr
  THEN [status |-> 401, detail |-> "Invalid token: malformed user ID", user |-> NoStr]
  ELSE IF GateAccount(tok) = {}
  THEN [status |-> 401, detail |-> "User not found", user |-> NoStr]
  ELSE IF \E u \in GateAccount(tok) : ~u.is_active
  THEN [status |-> 401, detail |-> "User account is deactivated", user |-> NoStr]
  ELSE [status |-> 200, detail |-> "ok", user |-> ParseUUID(tok.sub)]

\* an optional gate that lets the failure of the mandatory gate through
get_current_user_optional_Reraise(presented, tok, t) ==
  IF ~presented THEN [status |-> 200, detail |-> "anonymous", user |-> NoStr]
  ELSE get_current_user(tok, t)

\* get_current_user_optional: None without credentials (HTTPBearer with
\* auto_error=False hands None over), else the account of get_current_user,
\* or None when that raises its HTTPException.  status 200 stands for a
\* dependency that has returned, user = NoStr for None.
get_current_user_optional(presented, tok, t) ==
  IF ~presented THEN [status |-> 200, detail |-> "anonymous", user |-> NoStr]
  ELSE IF get_current_user(tok, t).status = 200
  THEN [status |-> 200, detail |-> "ok", user |-> get_current_user(tok, t).user]
  ELSE [status |-> 200, detail |-> "anonymous", user |-> NoStr]

\* a request to an endpoint that depends on the optional gate, with a bearer
\* value or without credentials
OptionalRead(presented, tok, obs) ==
  /\ resp' = Seen(obs, Reply(IF presented THEN "optional" ELSE "optional_anonymous",
                             IF presented THEN tok ELSE NoToken,
                             get_current_user_optional(presented, tok, now).status,
                             get_current_user_optional(presented, tok, now).detail,
                             get_current_user_optional(presented, tok, now).user))
  /\ UNCHANGED <<users, social_accounts, languages, now, call, prev, issued, limiter>>

\* the tokens kept in flight: when there is no room for the new ones, the
\* client drops the ones it held
Keep(minted) ==
  IF Cardinality(issued \cup minted) <= MaxIssued THEN issued \cup minted ELSE minted

\* a token in flight: the account and the time it was minted for, and
\* whether its holder has logged out with it
Issue(tok, uid, t) == [tok |-> tok, uid |-> uid, at |-> t, logged_out |-> FALSE]

\* the tokens in flight once the holder of tok has logged out with it
LoggedOut(tok) == {IF i.tok = tok THEN [i EXCEPT !.logged_out = TRUE] ELSE i : i \in issued}

(***************************************************************************)
(* Endpoints.                                                              *)
(***************************************************************************)
\* social_login after the service has returned: the two tokens are minted
\* from the user row, which is read again after the commit
Respond(c) ==
  /\ call[c].pc = "returned"
  /\ IF GetUser(call[c].result.user) = {}
     THEN /\ call' = [call EXCEPT ![c] = Failed(c, "ObjectDeletedError")]
          /\ resp' = Reply("social_login", NoToken, 500,
                           "An error occurred during authentication", NoStr)
          /\ UNCHANGED issued
     ELSE \E u \in GetUser(call[c].result.user) :
            /\ call' = [call EXCEPT ![c].pc = "done"]
            /\ issued' = Keep({Issue(create_access_token(u, now), u.id, now),
                               Issue(create_refresh_token(u, now), u.id, now)})
            /\ resp' = WithTokens(Reply("social_login", create_access_token(u, now), 200,
                                        "ok", u.id),
                                  {create_access_token(u, now), create_refresh_token(u, now)})
  /\ UNCHANGED <<users, social_accounts, languages, now, prev, limiter>>

\* GET /users/, a read behind the gate
ReadUsers(tok, obs) ==
  /\ resp' = Seen(obs, Reply("read_users", tok, get_current_user(tok, now).status,
                             get_current_user(tok, now).detail,
                             get_current_user(tok, now).user))
  /\ UNCHANGED <<users, social_accounts, languages, now, call, prev, issued, limiter>>

\* Depends(HTTPBearer()) on a request without an Authorization header: the
\* dependency raises "Not authenticated" and get_current_user does not run.
\* The status is the one of the installed FastAPI, 403 before version 0.122
\* and 401 from it on; the repository names no version.
NotAuthenticatedStatus == {403, 401}

NoHeader(op, obs) ==
  /\ \E st \in NotAuthenticatedStatus :
       resp' = Seen(obs, Reply(op, NoToken, st, "Not authenticated", NoStr))
  /\ UNCHANGED <<users, social_accounts, languages, now, call, prev, issued, limiter>>

\* a logout that deactivates the account
LogoutReply_Deactivating(tok, obs) ==
  /\ IF get_current_user(tok, now).status = 200
     THEN /\ resp' = Seen(obs, Reply("logout", tok, 200, "Successfully logged out",
                                     get_current_user(tok, now).user))
          /\ users' = {IF u.id = get_current_user(tok, now).user
                       THEN [u EXCEPT !.is_active = FALSE] ELSE u : u \in users}
     ELSE /\ resp' = Seen(obs, Reply("logout", tok, 401, get_current_user(tok, now).detail,
                                     NoStr))
          /\ UNCHANGED users
  /\ UNCHANGED <<social_accounts, languages, now, call, prev, limiter>>

\* logout: the gate, a log line and an acknowledgement; the handler writes
\* nothing to the store
LogoutReply(tok, obs) ==
  /\ resp' = Seen(obs, IF get_current_user(tok, now).status = 200
                       THEN Reply("logout", tok, 200, "Successfully logged out",
                                  get_current_user(tok, now).user)
                       ELSE Reply("logout", tok, 401, get_current_user(tok, now).detail,
                                  NoStr))
  /\ UNCHANGED <<users, social_accounts, languages, now, call, prev, limiter>>

\* POST /auth/logout
Logout(tok, obs) ==
  /\ LogoutReply(tok, obs)
  /\ UNCHANGED issued

\* POST /auth/logout, with the record of the tokens that were used for it
LogoutRecorded(tok) ==
  /\ LogoutReply(tok, TRUE)
  /\ issued' = IF get_current_user(tok, now).status = 200 THEN LoggedOut(tok) ELSE issued

\* a refresh that takes any verified token, whatever its type
RefreshOutcome_AnyType(tok, t) ==
  IF verify_token(tok, t).status /= 200 THEN "HTTPException"
  ELSE IF tok.sub.form = "absent" THEN "KeyError"
  ELSE IF ParseUUID(tok.sub) = NoStr THEN "ValueError"
  ELSE IF GateAccount(tok) = {} \/ \E u \in GateAccount(tok) : ~u.is_active
  THEN "HTTPException"
  ELSE "ok"

\* refresh_token: what the body of the try block comes to
RefreshOutcome(tok, t) ==
  IF verify_token(tok, t).status /= 200 THEN "HTTPException"
  ELSE IF tok.type /= "refresh" THEN "HTTPException"
  ELSE IF tok.sub.form = "absent" THEN "KeyError"
  ELSE IF ParseUUID(tok.sub) = NoStr THEN "ValueError"
  ELSE IF GateAccount(tok) = {} \/ \E u \in GateAccount(tok) : ~u.is_active
  THEN "HTTPException"
  ELSE "ok"

\* a refresh that rotates the refresh token as well
Refresh_Rotating(tok, obs) ==
  /\ IF RefreshOutcome(tok, now) = "ok"
     THEN \E u \in GateAccount(tok) :
            /\ resp' = Seen(obs, WithTokens(Reply("refresh", tok, 200, "ok", u.id),
                                            {create_access_token(u, now),
                                             create_refresh_token(u, now)}))
            /\ issued' = Keep({Issue(create_access_token(u, now), u.id, now),
                               Issue(create_refresh_token(u, now), u.id, now)})
     ELSE /\ resp' = Seen(obs, Reply("refresh", tok, 401, "Invalid refresh token", NoStr))
          /\ UNCHANGED issued
  /\ UNCHANGED <<users, social_accounts, languages, now, call, prev, limiter>>

\* POST /auth/refresh: resp.token is the token of the request body
Refresh(tok, obs) ==
  /\ IF RefreshOutcome(tok, now) = "ok"
     THEN \E u \in GateAccount(tok) :
            /\ resp' = Seen(obs, WithTokens(Reply("refresh", tok, 200, "ok", u.id),
                                            {create_access_token(u, now)}))
            /\ issued' = Keep({Issue(create_access_token(u, now), u.id, now)})
     ELSE /\ resp' = Seen(obs, Reply("refresh", tok, 401, "Invalid refresh token", NoStr))
          /\ UNCHANGED issued
  /\ UNCHANGED <<users, social_accounts, languages, now, call, prev, limiter>>

UpdateNames == {Str_ann}

\* PATCH /users/{user_id} with a username
UpdateUser(tok, user_id, username, obs) ==
  /\ LET gate == get_current_user(tok, now)
     IN IF gate.status /= 200
        THEN /\ resp' = Seen(obs, Reply("update_user", tok, 401, gate.detail, NoStr))
             /\ UNCHANGED users
        ELSE IF GetUser(user_id) = {}
        THEN /\ resp' = Seen(obs, Reply("update_user", tok, 404, "User not found", NoStr))
             /\ UNCHANGED users
        ELSE IF user_id /= gate.user
        THEN /\ resp' = Seen(obs, Reply("update_user", tok, 403,
                                        "Can only update your own profile", NoStr))
             /\ UNCHANGED users
        ELSE IF \E u \in GetUser(user_id) : username /= u.username
                /\ UsersByUsername(username) /= {}
        THEN /\ resp' = Seen(obs, Reply("update_user", tok, 400, "Username already exists", NoStr))
             /\ UNCHANGED users
        ELSE /\ resp' = Seen(obs, Reply("update_user", tok, 200, "ok", user_id))
             /\ users' = {IF u.id = user_id THEN [u EXCEPT !.username = username] ELSE u :
                          u \in users}
  /\ UNCHANGED <<social_accounts, languages, now, call, prev, issued, limiter>>

\* DELETE /users/{user_id}: the users row goes; nothing deletes the rows of
\* social_accounts that point to it
DeleteUser(tok, user_id, obs) ==
  /\ LET gate == get_current_user(tok, now)
     IN IF gate.status /= 200
        THEN /\ resp' = Seen(obs, Reply("delete_user", tok, 401, gate.detail, NoStr))
             /\ UNCHANGED users
        ELSE IF user_id /= gate.user
        THEN /\ resp' = Seen(obs, Reply("delete_user", tok, 403,
                                        "Can only delete your own account", NoStr))
             /\ UNCHANGED users
        ELSE /\ resp' = Seen(obs, Reply("delete_user", tok, 200, "ok", user_id))
             /\ users' = {u \in users : u.id /= user_id}
  /\ UNCHANGED <<social_accounts, languages, now, call, prev, issued, limiter>>

(***************************************************************************)
(* The routes of /languages: none of them depends on get_current_user, so  *)
(* a request is served whatever it carries.  A language is named by its    *)
(* code.                                                                   *)
(***************************************************************************)
LanguageCodes == {"en", "es", "fr"}

\* GET /languages/
ReadLanguages ==
  /\ resp' = Reply("read_languages", NoToken, 200, "ok", NoStr)
  /\ UNCHANGED <<users, social_accounts, languages, now, call, prev, issued, limiter>>

\* POST /languages/
CreateLanguage(code) ==
  /\ IF code \in languages
     THEN /\ resp' = Reply("create_language", NoToken, 400, "Language code already exists",
                           NoStr)
          /\ UNCHANGED languages
     ELSE /\ resp' = Reply("create_language", NoToken, 200, "ok", NoStr)
          /\ languages' = languages \cup {code}
  /\ UNCHANGED <<users, social_accounts, now, call, prev, issued, limiter>>

\* DELETE /languages/{language_id}
DeleteLanguage(code) ==
  /\ IF code \notin languages
     THEN /\ resp' = Reply("delete_language", NoToken, 404, "Language not found", NoStr)
          /\ UNCHANGED languages
     ELSE /\ resp' = Reply("delete_language", NoToken, 200, "ok", NoStr)
          /\ languages' = languages \ {code}
  /\ UNCHANGED <<users, social_accounts, now, call, prev, issued, limiter>>

(***************************************************************************)
(* The provider token validators.                                          *)
(***************************************************************************)
GoogleClientId == "google_client_id"
Str_test_x == <<"t", "e", "s", "t", "@", "x">>

RequestError == [kind |-> "RequestError", status |-> 0, body |-> NoBody]
Non200 == [kind |-> "response", status |-> 401, body |-> NoBody]
Ok(body) == [kind |-> "response", status |-> 200, body |-> body]

\* the JSON bodies of a 200: with or without the id, with an empty id, with
\* or without the email, for this client or another; none of them carries
\* an email_verified / verified_email key, which the validators that read it
\* take as False
Bodies ==
  [id : {NoStr, "", "x1"}, email : {ABSENT, Str_joe_x}, aud : {GoogleClientId, "other_client"}]
Answers == {RequestError, Non200} \cup {Ok(b) : b \in Bodies}

\* validate_token either raises or returns the provider_data
Raise(error) == [error |-> error, pd |-> NoData]
Return(pd) == [error |-> NoStr, pd |-> pd]

\* dict.get(key) of a body: None when the key is not there
GetOrNone(v) == IF v = ABSENT THEN NULL ELSE v

\* the dict both branches of the Google validator build: "sub" / "id" and
\* "email" are subscripted, a missing key is a KeyError
GoogleData(body) ==
  IF body.id = NoStr \/ body.email = ABSENT THEN Raise("KeyError")
  ELSE Return([id |-> body.id, email |-> body.email, username |-> ABSENT,
               given_name |-> Str_ann, family_name |-> Str_empty,
               email_verified |-> FALSE])

\* GoogleTokenValidator.validate_token: tokeninfo first; a RequestError or
\* a status other than 200 there falls through to userinfo
GoogleValidate(x) ==
  IF x.first.kind = "response" /\ x.first.status = 200
  THEN IF x.first.body.aud /= GoogleClientId THEN Raise("InvalidSocialTokenError")
       ELSE GoogleData(x.first.body)
  ELSE IF x.second.kind = "RequestError" THEN Raise("RequestError")
  ELSE IF x.second.status /= 200 THEN Raise("InvalidSocialTokenError")
  ELSE GoogleData(x.second.body)

\* FacebookTokenValidator.validate_token
FacebookValidate(x) ==
  IF x.first.kind = "RequestError" THEN Raise("RequestError")
  ELSE IF x.first.status /= 200 THEN Raise("InvalidSocialTokenError")
  ELSE IF x.first.body.id = NoStr THEN Raise("KeyError")
  ELSE Return([id |-> x.first.body.id, email |-> GetOrNone(x.first.body.email),
               username |-> ABSENT, given_name |-> Str_ann, family_name |-> Str_empty,
               email_verified |-> TRUE])

\* AppleTokenValidator.validate_token: the key set is fetched, the key of
\* the token's kid is looked up, the token is verified; only
\* jwt.InvalidTokenError is caught
AppleValidate(x) ==
  IF x.first.kind = "RequestError" THEN Raise("RequestError")
  ELSE IF x.first.status /= 200 THEN Raise("SocialProviderError")
  ELSE IF ~x.has_key THEN Raise("InvalidSocialTokenError")
  ELSE IF ~x.verifies THEN Raise("InvalidSocialTokenError")
  ELSE IF x.first.body.id = NoStr THEN Raise("KeyError")
  ELSE Return([id |-> x.first.body.id, email |-> GetOrNone(x.first.body.email),
               username |-> ABSENT, given_name |-> Str_ann, family_name |-> Str_empty,
               email_verified |-> FALSE])

\* TwitterTokenValidator.validate_token
TwitterValidate(x) ==
  IF x.first.kind = "RequestError" THEN Raise("RequestError")
  ELSE IF x.first.status /= 200 THEN Raise("InvalidSocialTokenError")
  ELSE IF x.first.body.id = NoStr THEN Raise("KeyError")
  ELSE Return([id |-> x.first.body.id, email |-> GetOrNone(x.first.body.email),
               username |-> Str_joe, given_name |-> ABSENT, family_name |-> ABSENT,
               email_verified |-> Truthy(GetOrNone(x.first.body.email))])

\* MockSocialTokenValidator.validate_token
MockValidate(token) ==
  IF token = "invalid" THEN Raise("InvalidSocialTokenError")
  ELSE Return([id |-> "test_user_123", email |-> Str_test_x, username |-> ABSENT,
               given_name |-> Str_ann, family_name |-> Str_empty, email_verified |-> TRUE])

\* the keys of VALIDATORS
VALIDATORS == {"google", "facebook", "apple", "twitter", "mock"}

validate_social_token(provider, token, x) ==
  CASE provider \notin VALIDATORS -> Raise("ValueError")
    [] provider = "google" -> GoogleValidate(x)
    [] provider = "facebook" -> FacebookValidate(x)
    [] provider = "apple" -> AppleValidate(x)
    [] provider = "twitter" -> TwitterValidate(x)
    [] provider = "mock" -> MockValidate(token)

\* the members of the enum SocialProvider, the type of the request's provider
SocialProvider == {"google", "facebook", "apple", "twitter"}

\* the exchanges a request can meet at its provider
Exchanges(provider) ==
  CASE provider = "google" ->
         {[NoExchange EXCEPT !.first = a] : a \in {Ok(b) : b \in Bodies}}
         \cup {[NoExchange EXCEPT !.first = a, !.second = b] :
                 a \in {RequestError, Non200}, b \in Answers}
    [] provider = "apple" ->
         {[NoExchange EXCEPT !.first = a, !.has_key = k, !.verifies = v] :
            a \in {RequestError, Non200} \cup {Ok(b) : b \in {d \in Bodies : d.aud = GoogleClientId}},
            k \in BOOLEAN, v \in {TRUE}}
         \cup {[NoExchange EXCEPT !.first = Ok([NoBody EXCEPT !.id = "x1"]), !.has_key = TRUE]}
    [] provider = "mock" -> {NoExchange}
    [] OTHER ->
         {[NoExchange EXCEPT !.first = a] :
            a \in {RequestError, Non200} \cup {Ok(b) : b \in {d \in Bodies : d.aud = GoogleClientId}}}

SocialTokens == {"test_token", "invalid"}

\* a handler without the except clause of SocialProviderError
LoginStatus_TwoClauses(error) ==
  CASE error = "InvalidSocialTokenError" -> 401
    [] OTHER -> 500

\* the status and the detail of social_login's three except clauses
LoginStatus(error) ==
  CASE error = "InvalidSocialTokenError" -> 401
    [] error = "SocialProviderError" -> 502
    [] OTHER -> 500

LoginDetail(error) ==
  CASE error = "InvalidSocialTokenError" -> "Invalid provider token: str(e)"
    [] error = "SocialProviderError" -> "Error communicating with provider: str(e)"
    [] OTHER -> "An error occurred during authentication"

\* POST /auth/social-login up to the first query of the service: the body is
\* validated against SocialLoginRequest (422 when the provider is no member
\* of the enum), then the token is validated with the provider
SocialLoginRequest(c, provider, token, x, prefs) ==
  /\ call[c].pc \in {"idle", "done"}
  /\ LET req == [provider |-> provider, token |-> token, x |-> x]
         v == validate_social_token(provider, token, x)
     IN IF provider \notin SocialProvider
        THEN /\ call' = [call EXCEPT ![c] =
                           [IdleCall EXCEPT !.pc = "done", !.provider = provider, !.req = req,
                                            !.result = [NoResult EXCEPT
                                                          !.status = "error",
                                                          !.error = "RequestValidationError",
                                                          !.raised_at = "request"]]]
             /\ resp' = Reply("social_login", NoToken, 422, "enum", NoStr)
        ELSE /\ call' = [call EXCEPT ![c] =
                           IF v.error /= NoStr
                           THEN [IdleCall EXCEPT !.pc = "failed", !.provider = provider,
                                                 !.req = req,
                                                 !.result = [NoResult EXCEPT
                                                               !.status = "error",
                                                               !.error = v.error,
                                                               !.raised_at = "validate"]]
                           ELSE [Started(provider, v.pd, prefs) EXCEPT !.req = req]]
             /\ resp' = NoResp
  /\ UNCHANGED <<users, social_accounts, languages, now, prev, issued, limiter>>

\* social_login's except clauses: the answer to a call that raised
RespondError(c) ==
  /\ call[c].pc = "failed"
  /\ call[c].result.raised_at /= "returned"
  /\ call' = [call EXCEPT ![c].pc = "done"]
  /\ resp' = Reply("social_login", NoToken, LoginStatus(call[c].result.error),
                   LoginDetail(call[c].result.error), NoStr)
  /\ UNCHANGED <<users, social_accounts, languages, now, prev, issued, limiter>>

(***************************************************************************)
(* The environment: the clock, and the store's is_active column, which no  *)
(* endpoint writes and an operator of the database sets.                   *)
(***************************************************************************)
Tick ==
  /\ now < MaxNow
  /\ now' = now + 1
  /\ resp' = NoResp
  /\ UNCHANGED <<users, social_accounts, languages, call, prev, issued, limiter>>

SetActive(id, active) ==
  /\ \E u \in GetUser(id) : u.is_active /= active
  /\ users' = {IF u.id = id THEN [u EXCEPT !.is_active = active] ELSE u : u \in users}
  /\ resp' = NoResp
  /\ UNCHANGED <<social_accounts, languages, now, call, prev, issued, limiter>>

(***************************************************************************)
(* RateLimitMiddleware.  limiter holds the middleware's fields: requests   *)
(* (per client address, the deque of the admission times), lock (0 or the  *)
(* request that holds it), and where each request in dispatch stands.      *)
(***************************************************************************)
Dispatches == 1..NumDispatch
RateClients == {"ip1", "ip2"}
ExemptPaths == {"/health", "/docs", "/redoc", "/openapi.json"}
Paths == ExemptPaths \cup {"/users/"}

IdleDispatch == [pc |-> "idle", ip |-> NoStr, path |-> NoStr]
NoLimiter ==
  [requests |-> [ip \in RateClients |-> <<>>], lock |-> 0,
   dispatch |-> [r \in Dispatches |-> IdleDispatch]]

\* while requests[ip] and requests[ip][0] < minute_ago: popleft()
RECURSIVE Cleaned(_, _)
Cleaned(q, minute_ago) ==
  IF q /= <<>> /\ q[1] < minute_ago THEN Cleaned(Tail(q), minute_ago) ELSE q

\* the HTTPException(429) is raised inside a BaseHTTPMiddleware, outside the
\* exception handlers of the application: the server answers it as an
\* unhandled error
RejectedStatus == 500

\* dispatch up to the lock: an exempt path goes to call_next at once
Arrive(r, ip, path) ==
  /\ limiter.dispatch[r].pc = "idle"
  /\ IF path \in ExemptPaths
     THEN /\ resp' = Reply("exempt", NoToken, 200, path, ip)
          /\ UNCHANGED limiter
     ELSE /\ resp' = NoResp
          /\ limiter' = [limiter EXCEPT !.dispatch[r] =
                                          [pc |-> "acquire", ip |-> ip, path |-> path]]
  /\ UNCHANGED <<users, social_accounts, languages, now, call, prev, issued>>

\* async with self.lock
Enter(r) ==
  /\ limiter.dispatch[r].pc = "acquire"
  /\ limiter.lock = 0
  /\ limiter' = [limiter EXCEPT !.lock = r, !.dispatch[r].pc = "body"]
  /\ resp' = NoResp
  /\ UNCHANGED <<users, social_accounts, languages, now, call, prev, issued>>

\* the body under the lock: clean, check, append; the lock is released on
\* both ways out
Body(r) ==
  /\ limiter.dispatch[r].pc = "body"
  /\ LET ip == limiter.dispatch[r].ip
         q == Cleaned(limiter.requests[ip], now - WindowTicks)
     IN IF Len(q) >= RequestsPerMinute
        THEN /\ limiter' = [limiter EXCEPT !.requests[ip] = q, !.lock = 0,
                                           !.dispatch[r] = IdleDispatch]
             /\ resp' = Reply("rate_limited", NoToken, RejectedStatus,
                              "Internal Server Error", ip)
        ELSE /\ limiter' = [limiter EXCEPT !.requests[ip] = Append(q, now), !.lock = 0,
                                           !.dispatch[r].pc = "call_next"]
             /\ resp' = NoResp
  /\ UNCHANGED <<users, social_accounts, languages, now, call, prev, issued>>

\* return await call_next(request)
CallNext(r) ==
  /\ limiter.dispatch[r].pc = "call_next"
  /\ resp' = Reply("admitted", NoToken, 200, limiter.dispatch[r].path, limiter.dispatch[r].ip)
  /\ limiter' = [limiter EXCEPT !.dispatch[r] = IdleDispatch]
  /\ UNCHANGED <<users, social_accounts, languages, now, call, prev, issued>>

(***************************************************************************)
(* Bearer values a client can present.                                     *)
(***************************************************************************)
IssuedTokens == {i.tok : i \in issued}

\* values that this server did not mint: other keys, other issuers and
\* audiences, other subjects, any expiry
ForgedTokens ==
  [well_formed : {TRUE}, key : {SecretKey, "other_key"}, type : {NoStr},
   sub : {NoSub, [form |-> "empty", id |-> NoStr], [form |-> "junk", id |-> NoStr],
          [form |-> "plain", id |-> "u1"], [form |-> "braced", id |-> "u2"]},
   iat : {<<0>>}, exp : {NoTime, <<1>>, <<Sec(MaxNow) + 1>>},
   iss : {Issuer, "other-api"}, aud : {Audience, "other-app"}, is_active : {TRUE}]
  \cup {NoToken}

\* refresh tokens that this server did not mint, next to the ones it could
\* have: any type, key, subject, expiry and issuer
RefreshInputs ==
  [well_formed : {TRUE}, key : {SecretKey, "other_key"}, type : {NoStr, "refresh"},
   sub : {NoSub, [form |-> "empty", id |-> NoStr], [form |-> "junk", id |-> NoStr],
          [form |-> "plain", id |-> "u1"], [form |-> "braced", id |-> "u1"],
          [form |-> "plain", id |-> "u2"]},
   iat : {<<0>>}, exp : {<<1>>, <<Sec(MaxNow) + 1>>},
   iss : {Issuer}, aud : {Audience}, is_active : {FALSE}]
  \cup {[create_refresh_token(SeedUser1, 0) EXCEPT !.iss = "other-api"],
         [create_refresh_token(SeedUser1, 0) EXCEPT !.aud = "other-app"],
         [create_refresh_token(SeedUser1, 0) EXCEPT !.exp = NoTime],
         NoToken}

(***************************************************************************)
(* Specifications.                                                         *)
(***************************************************************************)
InitUsers == {{}, {SeedUser1}, {SeedUser1, SeedUser2},
              {SeedUser1, [SeedUser2 EXCEPT !.is_active = FALSE]}}

Quiet ==
  /\ now = 0
  /\ call = [c \in Calls |-> IdleCall]
  /\ prev = NoPrev
  /\ issued = {}
  /\ resp = NoResp
  /\ limiter = NoLimiter

\* the server starts on a database that holds some accounts and links
Init ==
  /\ users \in InitUsers
  /\ social_accounts \in {{}, {l \in {SeedLink1} : GetUser(l.user_id) /= {}}}
  /\ languages \in {{"en", "es"}, {"en"}}
  /\ Quiet

Reconcile(c) ==
  \/ SelectSocial(c)
  \/ LoadLinkedUser(c)
  \/ SelectUserByEmail(c)
  \/ GenerateBase(c)
  \/ ProbeUsername(c)
  \/ PrepareLanguages(c)
  \/ FlushUser(c)
  \/ Commit(c)

\* the social-login requests of one provider, without language preferences
FacebookLogin(c) == \E pd \in ProviderData("facebook") : Begin(c, "facebook", pd, NoPrefs)

\* NumCalls social-login requests, concurrent, next to the endpoints behind
\* the gate
Next ==
  \/ \E c \in Calls : FacebookLogin(c)
  \/ \E c \in Calls : Reconcile(c)
  \/ \E c \in Calls : Respond(c)
  \/ \E tok \in IssuedTokens : Logout(tok, FALSE)
  \/ \E tok \in IssuedTokens : Refresh(tok, FALSE)
  \/ \E tok \in IssuedTokens, id \in UserIds, n \in UpdateNames : UpdateUser(tok, id, n, FALSE)
  \/ \E tok \in IssuedTokens, id \in UserIds : DeleteUser(tok, id, FALSE)

Spec == Init /\ [][Next]_vars

\* one client, one social-login after the other, nothing else
NextSeq ==
  \/ \E p \in Providers, f \in Preferences : \E pd \in ProviderData(p) : BeginNext(p, pd, f)
  \/ Reconcile(1)

SpecSeq == Init /\ [][NextSeq]_vars

\* the login of a linked account
LinkedLogin(c) ==
  \E pd \in ProviderData("facebook") :
    /\ LinksOf("facebook", pd.id) /= {}
    /\ pd.email = Str_joe_x
    /\ Begin(c, "facebook", pd, NoPrefs)

InitAuth ==
  /\ users = {SeedUser1}
  /\ social_accounts = {SeedLink1}
  /\ languages = {"en", "es"}
  /\ Quiet

\* the life of the session tokens of one account: login, the clock, the
\* endpoints behind the gate, and the account's is_active and deletion
NextAuth ==
  \/ LinkedLogin(1)
  \/ SelectSocial(1)
  \/ LoadLinkedUser(1)
  \/ Commit(1)
  \/ Respond(1)
  \/ \E tok \in IssuedTokens \cup {NoToken} : ReadUsers(tok, TRUE)
  \/ NoHeader("read_users", TRUE)
  \/ \E tok \in IssuedTokens : Logout(tok, TRUE)
  \/ \E tok \in IssuedTokens : Refresh(tok, TRUE)
  \/ \E tok \in IssuedTokens, id \in UserIds : DeleteUser(tok, id, TRUE)
  \/ \E id \in UserIds, b \in BOOLEAN : SetActive(id, b)
  \/ Tick

SpecAuth == InitAuth /\ [][NextAuth]_vars

InitCodec ==
  /\ users \in InitUsers
  /\ social_accounts = {}
  /\ languages = {"en", "es"}
  /\ Quiet

\* any bearer value at the gate
NextCodec ==
  \/ \E tok \in ForgedTokens : ReadUsers(tok, TRUE)
  \/ \E id \in UserIds, b \in BOOLEAN : SetActive(id, b)
  \/ Tick

SpecCodec == InitCodec /\ [][NextCodec]_vars

\* a store with at most one account: every other subject is an unknown user
InitRefresh ==
  /\ users \in {{}, {SeedUser1}}
  /\ social_accounts = {}
  /\ languages = {"en", "es"}
  /\ Quiet

\* language_preferences of a request: None, or codes that the catalogue may
\* or may not hold
PreferenceInputs ==
  {NoPrefs} \cup [native_language_code : {"fr", "de"}, study_language_code : {"fr", "de", "es"}]

InitLanguages ==
  /\ users \in {{}, {SeedUser1}}
  /\ social_accounts = {l \in {SeedLink1} : GetUser(l.user_id) /= {}}
  /\ languages \in SUBSET {"en", "es", "fr"}
  /\ Quiet

\* one client's facebook logins with any language preferences, on any
\* catalogue
NextLanguages ==
  \/ \E f \in PreferenceInputs :
       \E pd \in ProviderData("facebook") : BeginNext("facebook", pd, f)
  \/ Reconcile(1)

SpecLanguages == InitLanguages /\ [][NextLanguages]_vars

\* any bearer value, or none, at the optional gate
NextOptional ==
  \/ \E tok \in ForgedTokens : OptionalRead(TRUE, tok, TRUE)
  \/ OptionalRead(FALSE, NoToken, TRUE)
  \/ \E id \in UserIds, b \in BOOLEAN : SetActive(id, b)
  \/ Tick

SpecOptional == InitCodec /\ [][NextOptional]_vars

InitRate ==
  /\ users = {}
  /\ social_accounts = {}
  /\ languages = {"en", "es"}
  /\ Quiet

\* concurrent requests of two client addresses at the rate limiter
NextRate ==
  \/ \E r \in Dispatches, ip \in RateClients, path \in Paths : Arrive(r, ip, path)
  \/ \E r \in Dispatches : Enter(r)
  \/ \E r \in Dispatches : Body(r)
  \/ \E r \in Dispatches : CallNext(r)
  \/ Tick

SpecRate == InitRate /\ [][NextRate]_vars

\* a store in which suffixed usernames are taken as well
SeedUser3 ==
  [id |-> "u2", username |-> Candidate(Str_joe, 1), email |-> Str_ann_x, is_active |-> TRUE,
   last_login |-> NoTime, provider |-> "twitter", provider_user_id |-> "t3"]

InitProbe ==
  /\ users \in {{}, {SeedUser1}, {SeedUser3}, {SeedUser1, SeedUser3}}
  /\ social_accounts = {l \in {SeedLink1} : GetUser(l.user_id) /= {}}
  /\ languages = {"en", "es"}
  /\ Quiet

\* one client's logins, one after the other, on a store whose usernames
\* collide with the names the identities derive
NextProbe ==
  \/ \E p \in Providers : \E pd \in ProviderData(p) : BeginNext(p, pd, NoPrefs)
  \/ Reconcile(1)

SpecProbe == InitProbe /\ [][NextProbe]_vars

\* one client's social-login requests, from the request body to the answer,
\* with every provider and every answer of the provider
NextLogin ==
  \/ \E p \in SocialProvider \cup {"mock"}, t \in SocialTokens :
       \E x \in Exchanges(p) : SocialLoginRequest(1, p, t, x, NoPrefs)
  \/ Reconcile(1)
  \/ Respond(1)
  \/ RespondError(1)

SpecLogin == InitAuth /\ [][NextLogin]_vars

\* requests to the business-object routes, with any bearer value or none
NextRoutes ==
  \/ \E tok \in ForgedTokens : ReadUsers(tok, TRUE)
  \/ NoHeader("read_users", TRUE)
  \/ ReadLanguages
  \/ \E code \in LanguageCodes : CreateLanguage(code)
  \/ \E code \in LanguageCodes : DeleteLanguage(code)

SpecRoutes == InitCodec /\ [][NextRoutes]_vars

\* the life of an access token around its logout
NextLogout ==
  \/ LinkedLogin(1)
  \/ SelectSocial(1)
  \/ LoadLinkedUser(1)
  \/ Commit(1)
  \/ Respond(1)
  \/ \E tok \in IssuedTokens : ReadUsers(tok, TRUE)
  \/ \E tok \in IssuedTokens : LogoutRecorded(tok)
  \/ \E id \in UserIds, b \in BOOLEAN : SetActive(id, b)
  \/ Tick

SpecLogout == InitAuth /\ [][NextLogout]_vars

\* any token at the refresh endpoint
NextRefresh ==
  \/ \E tok \in RefreshInputs : Refresh(tok, TRUE)
  \/ \E id \in UserIds, b \in BOOLEAN : SetActive(id, b)
  \/ Tick

SpecRefresh == InitRefresh /\ [][NextRefresh]_vars

(***************************************************************************)
(* Claims about reconciliation.                                            *)
(***************************************************************************)
Finished(c) == call[c].pc \in {"returned", "done", "failed"}

Returned(c) == call[c].result.status = "ok"

SameIdentity(c, d) ==
  call[c].provider = call[d].provider /\ call[c].pd.id = call[d].pd.id

\* C1: a client reconciles the same (provider, externalId) twice in sequence.
\* When the store held no link and no account for the identity, the first
\* call returns isNewAccount = true; the call after a call that returned
\* a new account returns isNewAccount = false and the same account id.
\* (Stated for an identity that carries an email, on a catalogue that holds
\* the two default languages.)
C1_ReconcileTwice ==
  /\ ( /\ Finished(1)
       /\ ~call[1].seen_link
       /\ call[1].seen_user = NoStr
       /\ Truthy(call[1].pd.email)
       /\ {"en", "es"} \subseteq languages )
     => (Returned(1) /\ call[1].result.is_new)
  /\ ( /\ Finished(1)
       /\ prev.result.status = "ok"
       /\ prev.result.is_new
       /\ prev.provider = call[1].provider
       /\ prev.id = call[1].pd.id )
     => (Returned(1) /\ ~call[1].result.is_new /\ call[1].result.user = prev.result.user)

\* C2: whatever the interleaving of concurrent calls that carry the same
\* (provider, externalId), the identity never belongs to two accounts: the
\* links of the identity name one account, and the calls that return for it
\* return that one account, so at most one of them has created it.
C2_OneAccountPerIdentity ==
  /\ \A l1 \in social_accounts, l2 \in social_accounts :
       (l1.provider = l2.provider /\ l1.provider_user_id = l2.provider_user_id)
         => l1.user_id = l2.user_id
  /\ \A c \in Calls, d \in Calls :
       (Returned(c) /\ Returned(d) /\ SameIdentity(c, d))
         => /\ call[c].result.user = call[d].result.user
            /\ (c /= d => ~(call[c].result.is_new /\ call[d].result.is_new))
  /\ \A c \in Calls, l \in social_accounts :
       (Returned(c) /\ l.provider = call[c].provider /\ l.provider_user_id = call[c].pd.id)
         => l.user_id = call[c].result.user

\* two calls for one identity raced: each found no link, one committed its
\* link and the commit of the other was refused
C2_Witness ==
  \E c \in Calls, d \in Calls :
    /\ c /= d
    /\ SameIdentity(c, d)
    /\ Returned(c)
    /\ ~call[c].seen_link
    /\ ~call[d].seen_link
    /\ call[d].result.error = "IntegrityError"
    /\ call[d].result.raised_at = "commit"
    /\ call[c].pd.email /= call[d].pd.email

\* C3: in every reachable state each (provider, externalId) pair is held by
\* at most one row of social_accounts.
C3_UniqueLink ==
  \A p \in Providers, id \in ExternalIds : Cardinality(LinksOf(p, id)) <= 1

\* two identities are linked, and the account of a link has been deleted
C3_Witness ==
  /\ \A id \in ExternalIds : Cardinality(LinksOf("facebook", id)) = 1
  /\ \E l \in social_accounts : GetUser(l.user_id) = {}

\* C4: a reconcile of an identity that has no link yet and whose email is the
\* email of an existing account returns that account with isNewAccount =
\* false, creates no account, and leaves a link of the identity that points
\* to that account.
C4_LinkByEmail ==
  ( /\ Finished(1)
    /\ ~call[1].seen_link
    /\ call[1].seen_user /= NoStr )
  => /\ Returned(1)
     /\ ~call[1].result.is_new
     /\ call[1].result.user = call[1].seen_user
     /\ {u.id : u \in users} = call[1].seen_ids
     /\ \E l \in LinksOf(call[1].provider, call[1].pd.id) : l.user_id = call[1].seen_user

C4_Witness ==
  /\ call[1].pc = "returned"
  /\ ~call[1].seen_link
  /\ call[1].seen_user = "u2"
  /\ call[1].provider = "google"

(***************************************************************************)
(* Claims about session tokens and the gate.                               *)
(***************************************************************************)
\* the configured lifetime of a minted token, in ticks
Lifetime(tok) == IF tok.type = "refresh" THEN Ticks(RefreshTTL) ELSE Ticks(AccessTTL)

AccessTokens == {i \in issued : i.tok.type = NoStr}

\* the responses of the endpoints that answer with the outcome of the gate
GateReply == resp.op \in {"read_users", "logout"}

TokenExpired == "Token has expired"
TokenInvalid == "Invalid authentication token"

\* C5: verifying an access token in the instant it was minted for user u
\* succeeds, and the subject of its claims parses to the id of u.
C5_MintThenVerify ==
  \A i \in AccessTokens :
    i.at = now => /\ verify_token(i.tok, now).status = 200
                  /\ ParseUUID(i.tok.sub) = i.uid

\* an access token minted later than the start of the clock, inside a second
C5_Witness == \E i \in AccessTokens : i.at = now /\ now % TicksPerSecond /= 0

\* C6 as claimed: a token minted at t with lifetime T is rejected as expired
\* at every time >= t + T and at no time < t + T.
C6_ExpiryAtTPlusT ==
  \A i \in issued :
    /\ now >= i.at + Lifetime(i.tok) => verify_token(i.tok, now).detail = TokenExpired
    /\ now < i.at + Lifetime(i.tok) => verify_token(i.tok, now).detail /= TokenExpired

\* C6 as amended: a token minted at t with lifetime T is rejected as expired
\* at every time >= t + T, and at no time before the start of the second in
\* which t + T lies; it is never rejected as expired a whole second or more
\* before t + T.
C6_ExpiryAtWholeSecond ==
  \A i \in issued :
    /\ now >= i.at + Lifetime(i.tok) => verify_token(i.tok, now).detail = TokenExpired
    /\ now < Ticks(Sec(i.at + Lifetime(i.tok)))
         => verify_token(i.tok, now).detail /= TokenExpired
    /\ now + TicksPerSecond <= i.at + Lifetime(i.tok)
         => verify_token(i.tok, now).detail /= TokenExpired

\* a token minted inside a second is rejected as expired before t + T, and
\* a token is rejected in the very instant t + T
C6_Witness ==
  /\ \E i \in issued : /\ now < i.at + Lifetime(i.tok)
                       /\ verify_token(i.tok, now).detail = TokenExpired
  /\ \E i \in issued : /\ now = i.at + Lifetime(i.tok)
                       /\ verify_token(i.tok, now).detail = TokenExpired

\* what makes a bearer value one that the server must not accept
Mismatch(tok) ==
  ~tok.well_formed \/ tok.key /= SecretKey \/ tok.iss /= Issuer \/ tok.aud /= Audience

C8_GateOrder ==
  resp.op = "read_users" =>
    LET tok == resp.token
        verified == verify_token(tok, now).status = 200
        subject == tok.sub.form \notin {"absent", "empty"}
        parsed == tok.sub.form \in {"plain", "braced"}
        account == {u \in users : parsed /\ u.id = tok.sub.id}
    IN /\ resp.status = 200 =>
            /\ verified /\ parsed
            /\ \E u \in account : u.is_active /\ resp.user = u.id
       /\ resp.status \in {200, 401}
       /\ (verified /\ subject /\ ~parsed)
            => (resp.status = 401 /\ resp.detail = "Invalid token: malformed user ID")
       /\ (verified /\ parsed /\ account = {})
            => (resp.status = 401 /\ resp.detail = "User not found")
       /\ (verified /\ parsed /\ \E u \in account : ~u.is_active)
            => (resp.status = 401 /\ resp.detail = "User account is deactivated")
       /\ ~verified => (resp.status = 401 /\ resp.detail = verify_token(tok, now).detail)

\* the gate has returned an account for a subject in its braced spelling, at
\* a time when another account is deactivated
C8_Witness ==
  /\ resp.op = "read_users"
  /\ resp.status = 200
  /\ resp.token.sub.form = "braced"
  /\ resp.user = "u2"
  /\ \E u \in users : u.id = "u1" /\ ~u.is_active

\* C9: an unexpired access token minted while the account was active is
\* rejected with AccountDeactivated at a request made while the stored account
\* is inactive.
C9_StoreDecidesActive ==
  \A i \in AccessTokens :
    ( /\ GateReply
      /\ resp.token = i.tok
      /\ i.tok.is_active
      /\ now < Ticks(i.tok.exp[1])
      /\ \E u \in users : u.id = i.uid /\ ~u.is_active )
    => (resp.status = 401 /\ resp.detail = "User account is deactivated")

C9_Witness ==
  \E i \in AccessTokens :
    /\ GateReply
    /\ resp.token = i.tok
    /\ i.tok.is_active
    /\ now < Ticks(i.tok.exp[1])
    /\ \E u \in users : u.id = i.uid /\ ~u.is_active
    /\ resp.detail = "User account is deactivated"

\* C10: a refresh token presented as the bearer credential of an endpoint
\* behind the gate does not authenticate the request.
C10_RefreshTokenNotBearer ==
  (resp.op \in {"read_users", "logout", "delete_user"} /\ resp.token.type = "refresh")
    => resp.status /= 200

(***************************************************************************)
(* Claims about the refresh endpoint.                                      *)
(***************************************************************************)
\* what makes the token of a refresh request a failing input, in the store
\* and at the time of the request
RefreshFails(tok) ==
  \/ ~tok.well_formed
  \/ tok.key /= SecretKey
  \/ tok.iss /= Issuer
  \/ tok.aud /= Audience
  \/ (tok.exp /= NoTime /\ Ticks(tok.exp[1]) <= now)
  \/ tok.type /= "refresh"
  \/ tok.sub.form \notin {"plain", "braced"}
  \/ ~\E u \in users : u.id = tok.sub.id /\ u.is_active

\* C11: the refresh endpoint answers every failing input (an expired,
\* malformed or wrongly signed token, a token whose type is not "refresh", a
\* subject that is no id, an unknown or an inactive user) with 401 and a
\* body without tokens; it answers with no status other than 200 and 401.
C11_RefreshFailsWith401 ==
  resp.op = "refresh" =>
    /\ resp.status \in {200, 401}
    /\ RefreshFails(resp.token) => (resp.status = 401 /\ resp.minted = {})
    /\ resp.status = 401 => resp.minted = {}

\* a token that the gate would accept, a valid access token of an active
\* user, has been refused by the refresh endpoint
C11_Witness ==
  /\ resp.op = "refresh"
  /\ resp.status = 401
  /\ resp.token.type = NoStr
  /\ get_current_user(resp.token, now).status = 200
  /\ now > 0

\* C12: the refresh endpoint answers an unexpired refresh token of an
\* existing active user u with 200 and exactly one token, an access token
\* that verifies and whose subject is the id of u; the request adds no
\* refresh token to the tokens in flight and leaves the store unchanged.
C12_RefreshMintsOneAccessToken ==
  /\ [](\A i \in issued :
          ( /\ resp.op = "refresh"
            /\ resp.token = i.tok
            /\ i.tok.type = "refresh"
            /\ now < Ticks(i.tok.exp[1])
            /\ \E u \in users : u.id = i.uid /\ u.is_active )
          => /\ resp.status = 200
             /\ resp.user = i.uid
             /\ Cardinality(resp.minted) = 1
             /\ \A m \in resp.minted : /\ m.type = NoStr
                                       /\ verify_token(m, now).status = 200
                                       /\ ParseUUID(m.sub) = i.uid)
  /\ [][resp'.op = "refresh" =>
          /\ users' = users
          /\ social_accounts' = social_accounts
          /\ languages' = languages
          /\ \A i \in issued' \ issued : i.tok.type = NoStr /\ i.tok \in resp'.minted]_vars

\* a refresh token has been exchanged later than the second it was minted in
C12_Witness ==
  \E i \in issued :
    /\ resp.op = "refresh"
    /\ resp.status = 200
    /\ resp.token = i.tok
    /\ i.tok.type = "refresh"
    /\ now >= i.at + TicksPerSecond
    /\ \E m \in resp.minted : m.iat /= i.tok.iat

(***************************************************************************)
(* Claims about the social-login endpoint and the validators.              *)
(***************************************************************************)
\* the answer to the request of slot 1 has just been given
LoginAnswered == resp.op = "social_login" /\ call[1].pc = "done"

\* the error the handler of slot 1 ended with (NoStr when it returned)
HandlerError ==
  IF call[1].result.raised_at = "request" THEN NoStr ELSE call[1].result.error

\* C13: social_login maps every failure of its handler to exactly one
\* status: InvalidSocialTokenError to 401, SocialProviderError to 502, and
\* any other exception to 500 with the fixed generic message.
C13_LoginErrorStatus ==
  (LoginAnswered /\ call[1].result.raised_at /= "request") =>
    /\ resp.status \in {200, 401, 502, 500}
    /\ resp.status = 200 <=> HandlerError = NoStr
    /\ resp.status = 401 <=> HandlerError = "InvalidSocialTokenError"
    /\ resp.status = 502 <=> HandlerError = "SocialProviderError"
    /\ resp.status = 500 => resp.detail = "An error occurred during authentication"
    /\ resp.status /= 200 => (resp.minted = {} /\ resp.user = NoStr)

\* Apple's key set could not be fetched, and the request was answered 502
C13_Witness ==
  /\ LoginAnswered
  /\ resp.status = 502
  /\ call[1].req.provider = "apple"
  /\ call[1].result.error = "SocialProviderError"

\* a call to the provider that the validator makes raised a RequestError
TransportError(req) ==
  IF req.provider = "google"
  THEN ~(req.x.first.kind = "response" /\ req.x.first.status = 200)
       /\ req.x.second.kind = "RequestError"
  ELSE req.provider \in SocialProvider /\ req.x.first.kind = "RequestError"

\* C14: for every provider validator, a timeout or another transport error
\* of the call to the provider makes validate fail with SocialProviderError,
\* and social-login answers 502, not 401 or 500.
C14_TransportErrorIs502 ==
  (LoginAnswered /\ TransportError(call[1].req)) =>
    (call[1].result.error = "SocialProviderError" /\ resp.status = 502)

\* the id the provider's answer gives the validator (NoStr: none)
AnsweredId(req) ==
  IF req.provider = "google" /\ ~(req.x.first.kind = "response" /\ req.x.first.status = 200)
  THEN req.x.second.body.id
  ELSE req.x.first.body.id

\* C15: whenever validate succeeds the provider_data carries a non-empty
\* id; an answer of the provider without the id makes validate fail with
\* InvalidSocialTokenError.
C15_ExternalIdNonEmpty ==
  /\ \A c \in Calls :
       call[c].pc \notin {"idle", "done", "failed"} => call[c].pd.id \notin {NoStr, ""}
  /\ (call[1].result.raised_at = "validate" /\ call[1].result.error = "KeyError")
       => AnsweredId(call[1].req) /= NoStr

\* C16: a social-login request with provider "mock" and a token other than
\* "invalid" is answered 200, and 401 with the token "invalid".
C16_MockLogin ==
  (LoginAnswered /\ call[1].req.provider = "mock") =>
    resp.status = IF call[1].req.token = "invalid" THEN 401 ELSE 200

(***************************************************************************)
(* Claims about the routes behind the gate.                                *)
(***************************************************************************)
\* C17: a request to a route behind the gate is answered 401 when it
\* carries no Authorization header and 401 when its bearer value is no
\* session token; it is answered 200 when it carries an access token of an
\* existing active user that has just been minted.
C17_GateStatus ==
  resp.op = "read_users" =>
    /\ resp.detail = "Not authenticated" => resp.status = 401
    /\ (resp.detail /= "Not authenticated" /\ ~resp.token.well_formed) => resp.status = 401
    /\ \A i \in AccessTokens :
         ( /\ resp.token = i.tok
           /\ i.at = now
           /\ \E u \in users : u.id = i.uid /\ u.is_active )
         => resp.status = 200

BusinessOps == {"read_users", "read_languages", "create_language", "delete_language"}

\* C18: every operation of the business-object routes passes through the
\* gate: a request is served only when it carries a token that verifies and
\* names an existing active account.
C18_AllRoutesGated ==
  (resp.op \in BusinessOps /\ resp.status = 200) =>
    /\ verify_token(resp.token, now).status = 200
    /\ \E u \in users : /\ resp.token.sub.form \in {"plain", "braced"}
                        /\ u.id = resp.token.sub.id
                        /\ u.is_active

\* C19: logout changes no server-side state: it leaves accounts, links and
\* languages unchanged and takes no token out of flight; the access token
\* used to log out is accepted by the gate at every later request made
\* before its expiry instant for an account that is still stored and active.
C19_LogoutChangesNothing ==
  /\ [][resp'.op = "logout" =>
          /\ users' = users
          /\ social_accounts' = social_accounts
          /\ languages' = languages
          /\ {i.tok : i \in issued'} = {i.tok : i \in issued}]_vars
  /\ [](\A i \in issued :
          ( /\ i.logged_out
            /\ resp.op \in {"read_users", "logout"}
            /\ resp.token = i.tok
            /\ now < Ticks(i.tok.exp[1])
            /\ \E u \in users : u.id = i.uid /\ u.is_active )
          => resp.status = 200)

\* a token that was used to log out has been accepted by the gate at a
\* later time
C19_Witness ==
  \E i \in issued :
    /\ i.logged_out
    /\ resp.op = "read_users"
    /\ resp.token = i.tok
    /\ resp.status = 200
    /\ now > i.at

\* C20: deleting an account deletes its links with it: in every reachable
\* state each row of social_accounts references an account that is stored,
\* and no reconcile fails on a link whose account is gone.
C20_NoDanglingLink ==
  /\ \A l \in social_accounts : GetUser(l.user_id) /= {}
  /\ \A c \in Calls :
       ~(call[c].result.raised_at = "load_user" /\ call[c].result.error = "AttributeError")

\* C21: the gate's answer for a token that verifies but whose account is
\* missing, and its answer for one whose account is deactivated, is the
\* answer it gives to a generic invalid token: same status, same detail.
C21_NoAccountEnumeration ==
  ( /\ resp.op = "read_users"
    /\ verify_token(resp.token, now).status = 200
    /\ resp.token.sub.form \in {"plain", "braced"}
    /\ \/ \A u \in users : u.id /= resp.token.sub.id
       \/ \E u \in users : u.id = resp.token.sub.id /\ ~u.is_active )
  => (resp.status = 401 /\ resp.detail = TokenInvalid)

\* C22: expires_in of a social-login or refresh response is the number of
\* seconds from the issue instant to the expiry instant of the access token
\* minted in that response.
C22_ExpiresInIsLifetime ==
  (resp.op \in {"social_login", "refresh"} /\ resp.status = 200) =>
    \A tok \in resp.minted :
      tok.type = NoStr => resp.expires_in = tok.exp[1] - tok.iat[1]

(***************************************************************************)
(* Claims about the creation of an account.                                *)
(***************************************************************************)
\* the call went down the path that creates an account: the store held no
\* link of its identity and no account with its email when it started, and
\* none was found later
NewAccountPath(c) ==
  /\ ~call[c].seen_link
  /\ call[c].seen_user = NoStr
  /\ call[c].result.raised_at \notin {"load_user", "select_email"}
  /\ ~(Returned(c) /\ ~call[c].result.is_new)

\* the username base the identity of a call derives
DerivedBase(c) == NormaliseBase(RawBase(call[c].pd))

\* C23: two concurrent reconciliations of different identities that derive
\* the same username base both complete, whatever the interleaving, and the
\* two new accounts hold distinct usernames.  (Stated on a catalogue that
\* holds the two default languages.)
C23_SameBaseRace ==
  \A c \in Calls, d \in Calls :
    ( /\ c /= d
      /\ Finished(c) /\ Finished(d)
      /\ ~SameIdentity(c, d)
      /\ NewAccountPath(c) /\ NewAccountPath(d)
      /\ RawBase(call[c].pd) /= AttributeError
      /\ RawBase(call[d].pd) /= AttributeError
      /\ DerivedBase(c) = DerivedBase(d)
      /\ {"en", "es"} \subseteq languages )
    => /\ Returned(c) /\ Returned(d)
       /\ call[c].result.is_new /\ call[d].result.is_new
       /\ \A u \in GetUser(call[c].result.user), v \in GetUser(call[d].result.user) :
            u.username /= v.username

\* C24: creating an account and its first link is all or nothing: after a
\* failure on the path that creates an account the store holds neither a new
\* account nor a link of the identity.
C24_AllOrNothing ==
  (call[1].pc = "failed" /\ NewAccountPath(1)) =>
    /\ {u.id : u \in users} = call[1].seen_ids
    /\ LinksOf(call[1].provider, call[1].pd.id) = {}

\* a creation has failed when the account row was flushed
C24_Witness ==
  /\ call[1].pc = "failed"
  /\ NewAccountPath(1)
  /\ call[1].result.raised_at = "flush_user"
  /\ call[1].result.error = "IntegrityError"

\* the probing loop of the call has ended and its result is still held
Probed(c) == call[c].pc \in {"prepare_lang", "flush_user", "commit"} /\ call[c].base /= NULL

\* C25: username probing assigns the derived base when no account holds it,
\* and otherwise base_k for the smallest k >= 1 that no account holds; the
\* assigned username is not empty and is the username of no account.
C25_SmallestFreeSuffix ==
  Probed(1) =>
    /\ call[1].base = DerivedBase(1)
    /\ call[1].username = Candidate(call[1].base, call[1].counter)
    /\ \A j \in 0..(call[1].counter - 1) : UsersByUsername(Candidate(call[1].base, j)) /= {}
    /\ UsersByUsername(call[1].username) = {}
    /\ call[1].username /= Str_empty

\* the base and its first suffix were taken, and the loop has ended on the
\* second suffix
C25_Witness ==
  /\ Probed(1)
  /\ call[1].base = Str_joe
  /\ call[1].username = Str_joe \o <<"_", "2">>

\* the base the priority rule names: the provider username, else the local
\* part of the email, else givenName_familyName
PriorityBase(pd) ==
  IF Truthy(pd.username) THEN pd.username
  ELSE IF Truthy(pd.email) THEN SplitAtFirst(pd.email)
  ELSE FormatGet(pd.given_name) \o <<"_">> \o FormatGet(pd.family_name)

\* C26: username derivation never fails the request: no call fails while it
\* derives the base, an identity without provider username and without
\* email (absent or null) included, and the base is the normalised first
\* present one of provider username, local part of the email, and
\* givenName_familyName, prefixed with user_ when shorter than 3 characters.
C26_DerivationNeverFails ==
  /\ call[1].result.raised_at /= "gen_base"
  /\ Probed(1) =>
       /\ call[1].base = NormaliseBase(PriorityBase(call[1].pd))
       /\ Len(call[1].base) >= 3

\* the language the rule names: the preferred code when the request names
\* one and the catalogue holds it, else the fallback when the catalogue holds
\* it, else none
PreferredOrFallback(code, fallback) ==
  IF code /= NoStr /\ code \in languages THEN code
  ELSE IF fallback \in languages THEN fallback
  ELSE NoStr

\* C27: on the path that creates an account each of the two language
\* references is the preferred language when the catalogue holds that code
\* and else the fallback (en for native, es for study); when a needed
\* fallback is not in the catalogue the call fails there with the
\* configuration error and the store keeps no account and no link of it.
C27_LanguageFallback ==
  LET native == PreferredOrFallback(call[1].prefs.native_language_code, "en")
      study == PreferredOrFallback(call[1].prefs.study_language_code, "es")
  IN /\ call[1].pc \in {"flush_user", "commit"} /\ call[1].base /= NULL
          => /\ native /= NoStr /\ study /= NoStr
             /\ call[1].native_language_id = native
             /\ call[1].study_language_id = study
     /\ call[1].result.raised_at = "prepare_lang"
          => /\ native = NoStr \/ study = NoStr
             /\ call[1].result.error = "ValueError"
             /\ {u.id : u \in users} = call[1].seen_ids
             /\ LinksOf(call[1].provider, call[1].pd.id) = {}
     /\ call[1].result.raised_at = "flush_user" => (native /= NoStr /\ study /= NoStr)

\* the preferred native language was in the catalogue and the preferred
\* study language was not: the account is about to be created with fr and
\* the fallback es
C27_Witness ==
  /\ call[1].pc = "flush_user"
  /\ call[1].prefs.native_language_code = "fr"
  /\ call[1].prefs.study_language_code = "de"
  /\ call[1].native_language_id = "fr"
  /\ call[1].study_language_id = "es"

\* C28: the optional gate never fails and returns None when no credential is
\* presented and when the presented one fails a check of the gate (token
\* expired or invalid, subject missing or malformed, user unknown, account
\* deactivated); it returns an account exactly where the mandatory gate
\* returns that account.
C28_OptionalGate ==
  /\ resp.op = "optional_anonymous" => (resp.status = 200 /\ resp.user = NoStr)
  /\ resp.op = "optional" =>
       LET tok == resp.token
           parsed == tok.sub.form \in {"plain", "braced"}
           account == {u \in users : parsed /\ u.id = tok.sub.id}
           passes == /\ verify_token(tok, now).status = 200
                     /\ \E u \in account : u.is_active
       IN /\ resp.status = 200
          /\ ~passes => resp.user = NoStr
          /\ passes => (resp.user = tok.sub.id /\ get_current_user(tok, now).user = resp.user)
          /\ resp.user /= NoStr => get_current_user(tok, now).status = 200

\* a token that verifies was presented for a deactivated account, and the
\* optional gate has returned None
C28_Witness ==
  /\ resp.op = "optional"
  /\ resp.status = 200
  /\ resp.user = NoStr
  /\ get_current_user(resp.token, now).detail = "User account is deactivated"

\* C29: linking by email attaches the identity to the account that holds its
\* email whether or not the provider reports the email as verified: a call
\* of an identity without link whose email is the email of an account
\* returns that account, not a new one, and leaves a link to it, also when
\* email_verified is false; and whatever the flag, a call that returns for
\* such an identity returns the account that held the email.
C29_LinkIgnoresEmailVerified ==
  /\ ( /\ Finished(1)
       /\ ~call[1].seen_link
       /\ call[1].seen_user /= NoStr
       /\ ~call[1].pd.email_verified )
     => /\ Returned(1)
        /\ ~call[1].result.is_new
        /\ call[1].result.user = call[1].seen_user
        /\ \E l \in LinksOf(call[1].provider, call[1].pd.id) : l.user_id = call[1].seen_user
  /\ \A v \in BOOLEAN :
       ( /\ Returned(1)
         /\ ~call[1].seen_link
         /\ call[1].seen_user /= NoStr
         /\ call[1].pd.email_verified = v )
       => call[1].result.user = call[1].seen_user

\* a google identity with an unverified email has been linked to the account
\* that holds the email
C29_Witness ==
  /\ call[1].pc = "returned"
  /\ call[1].provider = "google"
  /\ ~call[1].pd.email_verified
  /\ ~call[1].seen_link
  /\ call[1].seen_user = "u1"
  /\ call[1].result.user = "u1"

(***************************************************************************)
(* Claims about the rate limiter.                                          *)
(***************************************************************************)
\* the admissions of a deque whose time lies inside the window that ends at t
InWindow(q, t) == {i \in 1..Len(q) : q[i] >= t - WindowTicks}

Admits(r) == limiter.dispatch[r].pc = "body" /\ limiter'.dispatch[r].pc = "call_next"
Rejects(r) == limiter.dispatch[r].pc = "body" /\ limiter'.dispatch[r].pc = "idle"

\* the counting of the limiter: per client address never more than
\* RequestsPerMinute admissions inside the window; a request is admitted
\* only when fewer are recorded there, and is then recorded; a rejected
\* request is not recorded; the exempt paths never enter the limiter and
\* are answered without a change of its state.
RateLimitCounts ==
  /\ [](\A ip \in RateClients :
          Cardinality(InWindow(limiter.requests[ip], now)) <= RequestsPerMinute)
  /\ [](\A r \in Dispatches :
          limiter.dispatch[r].pc /= "idle" => limiter.dispatch[r].path \notin ExemptPaths)
  /\ [][\A r \in Dispatches :
          /\ Admits(r) =>
               LET ip == limiter.dispatch[r].ip
               IN /\ Cardinality(InWindow(limiter.requests[ip], now)) < RequestsPerMinute
                  /\ Cardinality(InWindow(limiter'.requests[ip], now))
                       = Cardinality(InWindow(limiter.requests[ip], now)) + 1
          /\ Rejects(r) =>
               LET ip == limiter.dispatch[r].ip
               IN /\ Cardinality(InWindow(limiter.requests[ip], now)) >= RequestsPerMinute
                  /\ Cardinality(InWindow(limiter'.requests[ip], now))
                       = Cardinality(InWindow(limiter.requests[ip], now))]_vars
  /\ [][resp'.op = "exempt" => (limiter' = limiter /\ resp'.status = 200)]_vars

\* C30: for each client address and under any interleaving of concurrent
\* requests the limiter never holds more than RequestsPerMinute admissions
\* inside the window; a request is admitted only if fewer are recorded in
\* the window; a rejected request is answered 429 and is not recorded; the
\* requests to /health, /docs, /redoc and /openapi.json are neither counted
\* nor rejected.
C30_RateLimit ==
  /\ RateLimitCounts
  /\ [](resp.op = "rate_limited" => resp.status = 429)

====
